---- MODULE Spec2Model ----
(***************************************************************************)
(* biggestfiles.py: list the biggest files under a directory tree.         *)
(*                                                                         *)
(* Text is a sequence of one-character strings.  A path is the sequence of *)
(* its segments below the search path (<<>> is the search path itself).    *)
(* Two specifications are given: Spec runs main() over a file system, and  *)
(* SelSpec runs the selector and the formatter over a given list of        *)
(* FileInfo records.                                                       *)
(***************************************************************************)
EXTENDS Integers, Sequences, FiniteSets, TLC

VARIABLES
    fs,        \* the file system: path -> [kind, size, readable]
    pattern,   \* -p/--pattern, as text
    limit,     \* -m/--max-files
    input,     \* SelSpec: what is left of the list handed to the selector
    walk,      \* os.walk: the directories still to be visited, next first
    queue,     \* the matches of the current directory not yet yielded
    pending,   \* the FileInfo map() has produced and reduce has not folded
    acc,       \* reduce's accumulator
    work,      \* the list the last update sorted (items + [item])
    consumed,  \* history: the records folded so far, in order
    yielded,   \* history: what collect_file_paths yielded, in order
    visited,   \* history: the directories os.walk listed, in order
    denied,    \* history: the directories os.walk was denied to list
    pc,        \* "run", "done" (lines printed) or "aborted" (traceback)
    output     \* the lines printed

vars == <<fs, pattern, limit, input, walk, queue, pending, acc, work,
          consumed, yielded, visited, denied, pc, output>>

----------------------------------------------------------------------------
(* Bounds of the model. *)

\* the largest limit (-m) tried
MaxLimit == 3
\* the most negative limit tried is -MaxNeg
MaxNeg == 2
\* the longest list handed to the selector in SelSpec
MaxLen == 5

----------------------------------------------------------------------------
(* Generic helpers on sequences. *)

Min(a, b) == IF a <= b THEN a ELSE b
Max(a, b) == IF a >= b THEN a ELSE b

RECURSIVE Concat(_)
\* the concatenation of a sequence of sequences
Concat(ss) == IF ss = <<>> THEN <<>> ELSE Head(ss) \o Concat(Tail(ss))

RECURSIVE Filter(_, _)
\* the subsequence of s whose elements are in the set keep
Filter(s, keep) ==
    IF s = <<>> THEN <<>>
    ELSE (IF Head(s) \in keep THEN <<Head(s)>> ELSE <<>>) \o Filter(Tail(s), keep)

Range(s) == {s[i] : i \in 1..Len(s)}

----------------------------------------------------------------------------
(* The file system the run reads. *)

AT == <<"a", ".", "t">>
BL == <<"b", ".", "l">>
DT == <<"d", ".", "t">>
E  == <<"e">>

\* every path of the tree, parents before children; os.scandir lists the
\* entries of a directory in this order (the order is the file system's)
SlotSeq == << <<>>, <<AT>>, <<BL>>, <<DT>>, <<DT, AT>>, <<DT, E>> >>
Slots == Range(SlotSeq)

FileSizes == {3, 10}
DirSizes == {4096}

Absent == [kind |-> "absent", size |-> 0, readable |-> FALSE]
File(s) == [kind |-> "file", size |-> s, readable |-> TRUE]
Dir(s, r) == [kind |-> "dir", size |-> s, readable |-> r]

Kind(p) == IF p \in Slots THEN fs[p].kind ELSE "absent"
IsDir(p) == Kind(p) = "dir"
Exists(p) == Kind(p) # "absent"
\* os.scandir(p) succeeds
Listable(p) == IsDir(p) /\ fs[p].readable

Parent(p) == SubSeq(p, 1, Len(p) - 1)
Name(p) == p[Len(p)]

\* the entries os.scandir(d) lists
Entries(d) ==
    Filter(SlotSeq, {p \in Slots : p # <<>> /\ Parent(p) = d /\ Exists(p)})

\* a tree: an entry exists only inside a readable or unreadable directory
WellFormed(f) ==
    \A p \in Slots \ {<<>>} :
        f[p].kind # "absent" => f[Parent(p)].kind = "dir"

Trees ==
    {f \in [Slots -> {Absent} \cup {File(s) : s \in FileSizes}
                        \cup {Dir(s, r) : s \in DirSizes, r \in BOOLEAN}] :
        /\ WellFormed(f)
        /\ f[<<AT>>].kind # "dir" /\ f[<<BL>>].kind # "dir"
        /\ f[<<DT, AT>>].kind # "dir"
        /\ f[<<DT, E>>].kind # "file"
        /\ f[<<DT, E>>].kind = "dir" => f[<<DT, E>>].readable}

----------------------------------------------------------------------------
(* fnmatch: shell-style matching of one name. *)

\* the position of the first "]" of p after position 2, or 0
ClassEnd(p) ==
    LET js == {j \in 3..Len(p) : p[j] = "]"}
    IN  IF js = {} THEN 0 ELSE CHOOSE j \in js : \A k \in js : j <= k

RECURSIVE Match(_, _)
Match(p, s) ==
    IF p = <<>> THEN s = <<>>
    ELSE IF Head(p) = "*" THEN
        \/ Match(Tail(p), s)
        \/ s # <<>> /\ Match(p, Tail(s))
    ELSE IF Head(p) = "?" THEN
        s # <<>> /\ Match(Tail(p), Tail(s))
    ELSE IF Head(p) = "[" /\ ClassEnd(p) # 0 THEN
        LET j == ClassEnd(p)
            neg == p[2] = "!"
            cls == {p[k] : k \in (IF neg THEN 3 ELSE 2)..(j - 1)}
        IN  /\ s # <<>>
            /\ (Head(s) \in cls) # neg
            /\ Match(SubSeq(p, j + 1, Len(p)), Tail(s))
    ELSE s # <<>> /\ Head(s) = Head(p) /\ Match(Tail(p), Tail(s))

----------------------------------------------------------------------------
(* pathlib.Path.glob. *)

RECURSIVE Split(_)
\* the segments of a pattern, empty segments dropped
Split(t) ==
    LET cut == {i \in 1..Len(t) : t[i] = "/"}
    IN  IF cut = {} THEN (IF t = <<>> THEN <<>> ELSE <<t>>)
        ELSE LET i == CHOOSE i \in cut : \A k \in cut : i <= k
                 first == SubSeq(t, 1, i - 1)
             IN  (IF first = <<>> THEN <<>> ELSE <<first>>)
                     \o Split(SubSeq(t, i + 1, Len(t)))

StarStar == <<"*", "*">>
IsWildcard(part) == \E i \in 1..Len(part) : part[i] \in {"*", "?", "["}

RECURSIVE Dedup(_)
\* the first occurrence of each element, in order
Dedup(s) ==
    IF s = <<>> THEN <<>>
    ELSE LET front == Dedup(SubSeq(s, 1, Len(s) - 1))
             last == s[Len(s)]
         IN  IF last \in Range(front) THEN front ELSE front \o <<last>>

RECURSIVE IterateDirectories(_)
\* the starting points of "**": the directory and every directory below it
IterateDirectories(d) ==
    <<d>> \o (IF Listable(d)
              THEN Concat([i \in 1..Len(Entries(d)) |->
                       IF IsDir(Entries(d)[i])
                       THEN IterateDirectories(Entries(d)[i]) ELSE <<>>])
              ELSE <<>>)

RECURSIVE Select(_, _)
\* the paths the selector of the pattern segments parts yields below parent
Select(parts, parent) ==
    IF parts = <<>> THEN <<parent>>
    ELSE
      LET part == Head(parts)
          rest == Tail(parts)
          dironly == rest # <<>>
      IN  IF part = StarStar THEN
              LET from == IterateDirectories(parent)
              IN  Dedup(Concat([i \in 1..Len(from) |-> Select(rest, from[i])]))
          ELSE IF IsWildcard(part) THEN
              IF ~Listable(parent) THEN <<>>
              ELSE LET es == Entries(parent)
                   IN  Concat([i \in 1..Len(es) |->
                           IF (dironly => IsDir(es[i])) /\ Match(part, Name(es[i]))
                           THEN Select(rest, es[i]) ELSE <<>>])
          ELSE
              LET path == parent \o <<part>>
              IN  IF ~Listable(parent) THEN <<>>
                  ELSE IF (IF dironly THEN IsDir(path) ELSE Exists(path))
                  THEN Select(rest, path) ELSE <<>>

\* Path(directory).glob(pattern)
Glob(directory, pat) ==
    IF ~IsDir(directory) THEN <<>> ELSE Select(Split(pat), directory)

----------------------------------------------------------------------------
(* Text conversions. *)

DigitChars == <<"0", "1", "2", "3", "4", "5", "6", "7", "8", "9">>

RECURSIVE Str(_)
\* str(n) of a natural number: its decimal digits
Str(n) ==
    IF n < 10 THEN <<DigitChars[n + 1]>>
    ELSE Str(n \div 10) \o <<DigitChars[(n % 10) + 1]>>

RECURSIVE Spaces(_)
Spaces(k) == IF k <= 0 THEN <<>> ELSE <<" ">> \o Spaces(k - 1)

\* mutant of FormatRight: '<' for '>', the number left-aligned
FormatLeft(n, w) == Str(n) \o Spaces(w - Len(Str(n)))

\* '{:>wd}'.format(n): right-aligned in a field of at least w characters
FormatRight(n, w) == Spaces(w - Len(Str(n))) \o Str(n)

\* the command line's PATH argument
SearchPath == <<"r">>

RECURSIVE PathText(_)
\* str(path): the search path and the segments, joined by "/"
PathText(p) ==
    IF p = <<>> THEN SearchPath
    ELSE PathText(Parent(p)) \o <<"/">> \o Name(p)

NoFilesLine == <<"N", "o", " ", "f", "i", "l", "e", "s", " ", "w", "e", "r", "e", " ", "f", "o", "u", "n", "d", ".">>

----------------------------------------------------------------------------
(* The selector and the formatter. *)

FileInfo(path, size) == [path |-> path, size |-> size]

\* mutant of Slice: one element too many is kept
SliceOffByOne(s, k) ==
    IF k >= 0 THEN SubSeq(s, 1, Min(k + 1, Len(s)))
    ELSE SubSeq(s, 1, Max(Len(s) + k, 0))

\* mutant of Slice: a negative k means no limit
SliceNegativeUnlimited(s, k) ==
    IF k >= 0 THEN SubSeq(s, 1, Min(k, Len(s))) ELSE s

\* seq[:k], Python's slice: a negative k counts from the end
Slice(s, k) ==
    IF k >= 0 THEN SubSeq(s, 1, Min(k, Len(s)))
    ELSE SubSeq(s, 1, Max(Len(s) + k, 0))

\* mutant of Insert: x is put before the elements of its own size
InsertBeforeEqual(s, x) ==
    LET n == Cardinality({i \in 1..Len(s) : s[i].size > x.size})
    IN  SubSeq(s, 1, n) \o <<x>> \o SubSeq(s, n + 1, Len(s))

\* x put behind every element of the descending s that is at least as big
Insert(s, x) ==
    LET n == Cardinality({i \in 1..Len(s) : s[i].size >= x.size})
    IN  SubSeq(s, 1, n) \o <<x>> \o SubSeq(s, n + 1, Len(s))

RECURSIVE Sorted(_)
\* sorted(s, key=attrgetter('size'), reverse=True): stable, descending
Sorted(s) ==
    IF s = <<>> THEN <<>>
    ELSE Insert(Sorted(SubSeq(s, 1, Len(s) - 1)), s[Len(s)])

\* the list the fold sorts: items + [item]
WorkingSet(items, item) == items \o <<item>>

\* mutant of update_with_item: the [:limit] is forgotten
UpdateNoTruncate(items, item) == Sorted(WorkingSet(items, item))

update_with_item(items, item) == Slice(Sorted(WorkingSet(items, item)), limit)

format_results(file_infos) ==
    IF file_infos # <<>> THEN
        LET highest_size_digits == Len(Str(file_infos[1].size))
        IN  [i \in 1..Len(file_infos) |->
                <<" ">> \o FormatRight(file_infos[i].size, highest_size_digits)
                    \o <<" ", " ">> \o PathText(file_infos[i].path)]
    ELSE <<NoFilesLine>>

\* file_path.stat() succeeds
StatOk(p) == Exists(p) /\ (p = <<>> \/ Listable(Parent(p)))

create_file_info(file_path) == FileInfo(file_path, fs[file_path].size)

----------------------------------------------------------------------------
(* The run of main(). *)

Patterns ==
    { <<"*">>, <<"*", ".", "t">>, <<"[", "a", "b", "]", "*">>, <<"?">>,
      <<"d", ".", "t", "/", "*">>, <<"*", "*", "/", "*">> }

Limits == (0 - MaxNeg)..MaxLimit

Init ==
    /\ fs \in Trees
    /\ pattern \in Patterns
    /\ limit \in Limits
    /\ input = <<>>
    /\ walk = << <<>> >>
    /\ queue = <<>>
    /\ pending = <<>>
    /\ acc = <<>>
    /\ work = <<>>
    /\ consumed = <<>>
    /\ yielded = <<>>
    /\ visited = <<>>
    /\ denied = <<>>
    /\ pc = "run"
    /\ output = <<>>

\* the subdirectories os.walk descends into after listing d
SubDirs(d) == Filter(Entries(d), {p \in Slots : IsDir(p)})

\* mutant of WalkStep: the error of a directory that cannot be listed is
\* raised instead of ignored
WalkStepRaising ==
    /\ pc = "run" /\ pending = <<>> /\ queue = <<>> /\ walk # <<>>
    /\ LET d == Head(walk)
       IN  IF Listable(d)
           THEN /\ walk' = SubDirs(d) \o Tail(walk)
                /\ visited' = Append(visited, d)
                /\ queue' = Glob(d, pattern)
                /\ UNCHANGED <<denied, pc>>
           ELSE /\ walk' = Tail(walk)
                /\ denied' = IF IsDir(d) THEN Append(denied, d) ELSE denied
                /\ pc' = "aborted"
                /\ UNCHANGED <<visited, queue>>
    /\ UNCHANGED <<fs, pattern, limit, input, pending, acc, work, consumed,
                   yielded, output>>

\* os.walk takes the next directory; a directory it cannot list is skipped
\* (onerror is None); Path(directory).glob(pattern) lists the matches
WalkStep ==
    /\ pc = "run" /\ pending = <<>> /\ queue = <<>> /\ walk # <<>>
    /\ LET d == Head(walk)
       IN  IF Listable(d)
           THEN /\ walk' = SubDirs(d) \o Tail(walk)
                /\ visited' = Append(visited, d)
                /\ queue' = Glob(d, pattern)
                /\ denied' = denied
           ELSE /\ walk' = Tail(walk)
                /\ denied' = IF IsDir(d) THEN Append(denied, d) ELSE denied
                /\ UNCHANGED <<visited, queue>>
    /\ UNCHANGED <<fs, pattern, limit, input, pending, acc, work, consumed,
                   yielded, pc, output>>

\* mutant of FetchStep: a path whose stat() fails is skipped
FetchStepSkipping ==
    /\ pc = "run" /\ pending = <<>> /\ queue # <<>>
    /\ LET p == Head(queue)
       IN  /\ queue' = Tail(queue)
           /\ yielded' = Append(yielded,
                  [path |-> p, dir |-> visited[Len(visited)], kind |-> Kind(p),
                   stat |-> StatOk(p)])
           /\ pending' = IF StatOk(p) THEN <<create_file_info(p)>> ELSE pending
    /\ UNCHANGED <<fs, pattern, limit, input, walk, acc, work, consumed,
                   visited, denied, pc, output>>

\* collect_file_paths yields the next match and map() applies
\* create_file_info to it; a failing stat() ends the run with a traceback
FetchStep ==
    /\ pc = "run" /\ pending = <<>> /\ queue # <<>>
    /\ LET p == Head(queue)
       IN  /\ queue' = Tail(queue)
           /\ yielded' = Append(yielded,
                  [path |-> p, dir |-> visited[Len(visited)], kind |-> Kind(p),
                   stat |-> StatOk(p)])
           /\ IF StatOk(p)
              THEN pending' = <<create_file_info(p)>> /\ pc' = pc
              ELSE pending' = pending /\ pc' = "aborted"
    /\ UNCHANGED <<fs, pattern, limit, input, walk, acc, work, consumed,
                   visited, denied, output>>

\* SelSpec: the iterable is a list; reduce takes its next element
ListNext ==
    /\ pc = "run" /\ pending = <<>> /\ input # <<>>
    /\ pending' = <<Head(input)>>
    /\ input' = Tail(input)
    /\ UNCHANGED <<fs, pattern, limit, walk, queue, acc, work, consumed,
                   yielded, visited, denied, pc, output>>

\* reduce folds the element it took into the accumulator
UpdateStep ==
    /\ pc = "run" /\ pending # <<>>
    /\ work' = WorkingSet(acc, Head(pending))
    /\ acc' = update_with_item(acc, Head(pending))
    /\ consumed' = Append(consumed, Head(pending))
    /\ pending' = Tail(pending)
    /\ UNCHANGED <<fs, pattern, limit, input, walk, queue, yielded, visited,
                   denied, pc, output>>

\* the iterable is exhausted: main prints the lines of format_results
Finish ==
    /\ pc = "run" /\ pending = <<>> /\ queue = <<>> /\ walk = <<>>
    /\ input = <<>>
    /\ output' = format_results(acc)
    /\ pc' = "done"
    /\ UNCHANGED <<fs, pattern, limit, input, walk, queue, pending, acc, work,
                   consumed, yielded, visited, denied>>

\* the environment: a listed file is removed before its size is read
Vanish ==
    /\ pc = "run"
    /\ \E p \in Range(queue) :
        /\ Kind(p) = "file"
        /\ fs' = [fs EXCEPT ![p] = Absent]
    /\ UNCHANGED <<pattern, limit, input, walk, queue, pending, acc, work,
                   consumed, yielded, visited, denied, pc, output>>

Next == WalkStep \/ FetchStep \/ UpdateStep \/ Finish \/ Vanish

Spec == Init /\ [][Next]_vars

----------------------------------------------------------------------------
(* The selector and the formatter on a given list. *)

SelSizes == {5, 42, 100, 999}

\* the records of a list of sizes: the i-th file is named by str(i)
Records(sizes) == [i \in 1..Len(sizes) |-> FileInfo(<<Str(i)>>, sizes[i])]

InputLists ==
    UNION {{Records(sizes) : sizes \in [1..n -> SelSizes]} : n \in 0..MaxLen}

SelInit ==
    /\ fs = [p \in Slots |-> Absent]
    /\ pattern = <<"*">>
    /\ limit \in Limits
    /\ input \in InputLists
    /\ walk = <<>>
    /\ queue = <<>>
    /\ pending = <<>>
    /\ acc = <<>>
    /\ work = <<>>
    /\ consumed = <<>>
    /\ yielded = <<>>
    /\ visited = <<>>
    /\ denied = <<>>
    /\ pc = "run"
    /\ output = <<>>

SelNext == ListNext \/ UpdateStep \/ Finish

SelSpec == SelInit /\ [][SelNext]_vars

----------------------------------------------------------------------------
(* Vocabulary of the properties. *)

SortedDesc(r) == \A i \in 1..(Len(r) - 1) : r[i].size >= r[i + 1].size

\* the place of s[i] in the stable descending order of s, counted from 0
Rank(s, i) ==
    Cardinality({j \in 1..Len(s) : s[j].size > s[i].size})
        + Cardinality({j \in 1..(i - 1) : s[j].size = s[i].size})

\* r is the first k elements of the stable descending order of s
IsStableTopK(r, s, k) ==
    /\ Len(r) = Min(k, Len(s))
    /\ \A i \in 1..Len(s) : Rank(s, i) < k => r[Rank(s, i) + 1] = s[i]

SizesOf(r) == [i \in 1..Len(r) |-> r[i].size]

NoDuplicates(s) == \A i, j \in 1..Len(s) : s[i] = s[j] => i = j

RECURSIVE NumDigits(_)
NumDigits(n) == IF n < 10 THEN 1 ELSE 1 + NumDigits(n \div 10)

MaxSize(r) == CHOOSE m \in Range(SizesOf(r)) : \A x \in Range(SizesOf(r)) : x <= m

DigitValue(c) == CHOOSE d \in 0..9 : DigitChars[d + 1] = c

RECURSIVE ParseNat(_)
\* the number a text of digits denotes
ParseNat(t) ==
    IF Len(t) = 1 THEN DigitValue(t[1])
    ELSE 10 * ParseNat(SubSeq(t, 1, Len(t) - 1)) + DigitValue(t[Len(t)])

\* line is lead spaces, then rec's size right-aligned in w characters, then
\* two spaces, then rec's path
LineLayout(line, lead, w, rec) ==
    /\ Len(line) >= lead + w + 2
    /\ \A k \in 1..lead : line[k] = " "
    /\ \E pad \in 0..(w - 1) :
        /\ \A k \in 1..pad : line[lead + k] = " "
        /\ \A k \in (pad + 1)..w : line[lead + k] \in Range(DigitChars)
        /\ ParseNat(SubSeq(line, lead + pad + 1, lead + w)) = rec.size
    /\ SubSeq(line, lead + w + 1, lead + w + 2) = <<" ", " ">>
    /\ SubSeq(line, lead + w + 3, Len(line)) = PathText(rec.path)

\* one line per result, each laid out behind lead spaces; one line when empty
OutputLayout(lead) ==
    IF acc = <<>> THEN Len(output) = 1
    ELSE /\ Len(output) = Len(acc)
         /\ \A i \in 1..Len(acc) :
                LineLayout(output[i], lead, NumDigits(MaxSize(acc)), acc[i])

----------------------------------------------------------------------------
(* The claims. *)

\* C1: for a non-negative limit K the selector returns the first K elements
\* of the stable descending-by-size order of the whole input: sorted
\* descending, no omitted record strictly larger than an included one, ties
\* in input order (the earlier ones kept when the limit cuts a tie); sizes
\* [100, 5, 999, 5, 42] with K = 3 give [999, 100, 42].
C1_StableTopK ==
    (pc = "done" /\ limit >= 0) =>
        /\ IsStableTopK(acc, consumed, limit)
        /\ SortedDesc(acc)
        /\ \A i \in 1..Len(consumed) :
               consumed[i] \notin Range(acc) =>
                   \A j \in 1..Len(acc) : consumed[i].size <= acc[j].size
        /\ (SizesOf(consumed) = <<100, 5, 999, 5, 42>> /\ limit = 3) =>
               SizesOf(acc) = <<999, 100, 42>>

\* C1 witness: a finished selection in which the limit cut a tie between
\* two records of equal size.
C1_Witness ==
    /\ pc = "done" /\ limit >= 1
    /\ \E i, j \in 1..Len(consumed) :
        /\ i < j /\ consumed[i].size = consumed[j].size
        /\ consumed[i] \in Range(acc) /\ consumed[j] \notin Range(acc)

\* C2: for a non-negative limit K the result has min(K, number of input
\* records) entries: none for K = 0, none for an empty input, all of them
\* when fewer than K exist.
C2_Length ==
    (pc = "done" /\ limit >= 0) =>
        /\ Len(acc) = Min(limit, Len(consumed))
        /\ limit = 0 => acc = <<>>
        /\ consumed = <<>> => acc = <<>>
        /\ Len(consumed) < limit => Range(acc) = Range(consumed)

\* C2 witness: a finished selection of fewer records than the limit allows.
C2_Witness ==
    pc = "done" /\ Len(consumed) >= 2 /\ limit > Len(consumed)
        /\ Len(acc) = Len(consumed)

\* C3 (as claimed): collect_file_paths yields only regular files; a
\* directory whose name matches the pattern is never yielded and never
\* appears in the ranked result, though the walk descends into it.
C3_OnlyRegularFiles ==
    /\ \A i \in 1..Len(yielded) : yielded[i].kind # "dir"
    /\ \A i \in 1..Len(acc) : ~IsDir(acc[i].path)
    /\ pc = "done" =>
           \A d \in Slots :
               (\A k \in 0..Len(d) : Listable(SubSeq(d, 1, k)))
                   => d \in Range(visited)

\* C4 (as claimed): the pattern is matched against a single path segment:
\* every yielded path is an immediate entry of the directory being visited
\* and its name alone matches the pattern.
C4_SingleSegment ==
    \A i \in 1..Len(yielded) :
        /\ yielded[i].path # <<>>
        /\ Parent(yielded[i].path) = yielded[i].dir
        /\ Match(pattern, Name(yielded[i].path))

\* C5: a search path that does not exist or is not a directory yields
\* nothing and raises nothing; the result is empty and the whole output is
\* the line "No files were found."
C5_NoRoot ==
    ~IsDir(<<>>) =>
        /\ yielded = <<>> /\ visited = <<>> /\ consumed = <<>> /\ acc = <<>>
        /\ pc # "aborted"
        /\ pc = "done" => output = <<NoFilesLine>>

\* C5 witness: the run over a search path that is a regular file has ended.
C5_Witness == Kind(<<>>) = "file" /\ pc = "done" /\ output = <<NoFilesLine>>

\* C6 (as claimed): a traversal error (permission denied reading a
\* directory of the tree, or a matched path gone before its size is read)
\* aborts the run: after it no ranked result line is printed.
C6_ErrorsAbort ==
    (denied # <<>> \/ \E i \in 1..Len(yielded) : ~yielded[i].stat)
        => ~(pc = "done" /\ acc # <<>> /\ Len(output) = Len(acc))

\* C6 (amended): a failing stat() of a yielded path aborts the run at once
\* and nothing is printed, and nothing else aborts the run; a directory
\* os.walk is denied to list is skipped (never listed, nothing yielded from
\* it) without ending the run.
C6_StatAbortsWalkSkips ==
    /\ \A i \in 1..Len(yielded) :
           ~yielded[i].stat => (i = Len(yielded) /\ pc = "aborted")
    /\ pc = "aborted" =>
           output = <<>> /\ yielded # <<>> /\ ~yielded[Len(yielded)].stat
    /\ \A i \in 1..Len(denied) :
           /\ denied[i] \notin Range(visited)
           /\ \A j \in 1..Len(yielded) : yielded[j].dir # denied[i]

\* C6 witness: a listed file was gone when its size was read, after other
\* records had been selected: the run is aborted with nothing printed.
C6_Witness ==
    pc = "aborted" /\ acc # <<>> /\ output = <<>>
        /\ yielded[Len(yielded)].kind = "absent"

\* C7 (as claimed): one line per result, each the size right-aligned in as
\* many characters as the largest size has digits, two spaces and the path,
\* with nothing before the size field; one line for an empty result.
C7_NothingBeforeSize == pc = "done" => OutputLayout(0)

\* C7 (amended): one line per result, each a single space, then the size
\* right-aligned in as many characters as the largest size has digits, two
\* spaces and the path; one line for an empty result.
C7_OneSpaceBeforeSize == pc = "done" => OutputLayout(1)

\* C7 witness: lines were printed for sizes of different numbers of digits.
C7_Witness ==
    pc = "done" /\ Len(acc) >= 2
        /\ NumDigits(acc[1].size) > NumDigits(acc[Len(acc)].size)

C9_NegativeLimit ==
    /\ Len(acc) <= Max(limit, 0)
    /\ limit < 0 => acc = <<>> /\ (pc = "done" => output = <<NoFilesLine>>)

\* C9 witness: a run with a negative limit has ended after reading the
\* sizes of several matches.
C9_Witness == limit < 0 /\ pc = "done" /\ Len(consumed) >= 2

\* C10 (as claimed): each directory is visited once and no path is yielded
\* more than once, so no file occupies two places of the ranked result.
C10_YieldedOnce ==
    /\ NoDuplicates(visited)
    /\ NoDuplicates([i \in 1..Len(yielded) |-> yielded[i].path])
    /\ NoDuplicates([i \in 1..Len(acc) |-> acc[i].path])

====
